---- MODULE Spec2Model ----
(***************************************************************************)
(* Model of fmg_to_obsidian_Version3.py: the pipeline that turns an FMG    *)
(* world document into a vault of notes, and integrate_mfcg_assets, the    *)
(* matcher that copies MFCG outputs into the vault.                        *)
(*                                                                         *)
(* Text is a sequence of one-character strings, so that lower(), the `in`  *)
(* substring test, str.split and safe_filename are computed character by   *)
(* character as Python computes them.  A path is a sequence of components. *)
(***************************************************************************)
EXTENDS Integers, Sequences, FiniteSets, TLC

VARIABLES
    doc,          \* the parsed input file: [readable, hasPack, pack]
    MFCG_DIR,     \* global MFCG_DIR: TRUE when --mfcg-dir names the source root
    srcExists,    \* os.path.exists(src_root)
    listing,      \* os.listdir(src_root), in listing order: Seq of entries
    files,        \* the vault's files: path -> content
    dirs,         \* the vault's directories: set of paths
    pc,           \* position of the run in the pipeline
    idx,          \* index of the next element of the current kind's list
    exitCode,     \* -1 while running, then the process's exit status
    raisedIn,     \* the kind whose transformer an exception left, or ""
    run,          \* 1 during the first run of the pipeline, 2 during the second
    files1,       \* the vault's files when the first run ended
    dirs1,        \* the vault's directories when the first run ended
    burg,         \* direct call: the (burg_id, burg_name) passed to the matcher
    ret,          \* direct call: the list integrate_mfcg_assets returned
    calls,        \* direct call: number of calls made so far
    pre,          \* direct call: the vault as it was before the last call
    MFCG_MATCH_MODE, \* module attribute set by a caller ('substring', 'exact')
    MFCG_DEDUPE,     \* module attribute set by a caller
    sf_name,      \* safe_filename alone: the text it is called on
    sf_result,    \* safe_filename alone: safe_filename(sf_name)
    sf_again,     \* safe_filename alone: safe_filename(sf_result)
    sf_step       \* safe_filename alone: number of calls made, 0..2

vars == <<doc, MFCG_DIR, srcExists, listing, files, dirs, pc, idx, exitCode, raisedIn,
          run, files1, dirs1, burg, ret, calls, pre, MFCG_MATCH_MODE, MFCG_DEDUPE,
          sf_name, sf_result, sf_again, sf_step>>

(***************************************************************************)
(* Bounds of the model.                                                    *)
(***************************************************************************)
\* Longest source-root listing drawn for a direct call of the matcher.
MaxEntries == 2
\* Number of direct calls of the matcher on the same source root and vault.
MaxCalls == 2
\* Number of kinds of one document whose container differs from the plain one.
MaxOdd == 1
\* Longest text safe_filename is called on.
MaxLen == 3

(***************************************************************************)
(* Text                                                                    *)
(***************************************************************************)
UpperChars == <<"A","B","C","D","E","F","G","H","I","J","K","L","M",
                "N","O","P","Q","R","S","T","U","V","W","X","Y","Z">>
LowerChars == <<"a","b","c","d","e","f","g","h","i","j","k","l","m",
                "n","o","p","q","r","s","t","u","v","w","x","y","z">>
DigitChars == <<"0","1","2","3","4","5","6","7","8","9">>

InSeq(c, s) == \E i \in DOMAIN s : s[i] = c

\* str.lower() on one character and on a text
LowerChar(c) ==
    IF InSeq(c, UpperChars)
    THEN LowerChars[CHOOSE i \in DOMAIN UpperChars : UpperChars[i] = c]
    ELSE c
Lower(s) == [i \in DOMAIN s |-> LowerChar(s[i])]

\* str(n) for a non-negative integer
RECURSIVE NatStr(_)
NatStr(n) ==
    IF n < 10 THEN <<DigitChars[n + 1]>>
    ELSE NatStr(n \div 10) \o <<DigitChars[(n % 10) + 1]>>

\* Python's `t in s` for two texts
Contains(s, t) ==
    \E k \in 0..(Len(s) - Len(t)) : \A j \in 1..Len(t) : s[k + j] = t[j]

\* s.split("/"): the components of a joined path
RECURSIVE SplitSlash(_)
SplitSlash(s) ==
    IF ~InSeq("/", s) THEN <<s>>
    ELSE LET k == CHOOSE i \in DOMAIN s :
                     s[i] = "/" /\ \A j \in 1..(i - 1) : s[j] # "/"
         IN <<SubSeq(s, 1, k - 1)>> \o SplitSlash(SubSeq(s, k + 1, Len(s)))

\* os.path.join of texts that may themselves hold "/" : the components
RECURSIVE PathOf(_)
PathOf(parts) ==
    IF parts = <<>> THEN <<>>
    ELSE SplitSlash(Head(parts)) \o PathOf(Tail(parts))

IsPrefix(p, q) == Len(p) <= Len(q) /\ SubSeq(q, 1, Len(p)) = p

(***************************************************************************)
(* Text literals of the program                                            *)
(***************************************************************************)
T_Burgs == <<"B","u","r","g","s">>
T_Cells == <<"C","e","l","l","s">>
T_States == <<"S","t","a","t","e","s">>
T_Provinces == <<"P","r","o","v","i","n","c","e","s">>
T_Cultures == <<"C","u","l","t","u","r","e","s">>
T_Religions == <<"R","e","l","i","g","i","o","n","s">>
T_Features == <<"F","e","a","t","u","r","e","s">>
T_Rivers == <<"R","i","v","e","r","s">>
T_emblems == <<"e","m","b","l","e","m","s">>
T_mfcg == <<"m","f","c","g">>
T_md == <<".","m","d">>
T_svg == <<"s","v","g">>
T_unnamed == <<"u","n","n","a","m","e","d">>
T_unknown == <<"u","n","k","n","o","w","n">>
T_http == <<"h","t","t","p",":","/","/">>
T_https == <<"h","t","t","p","s",":","/","/">>

T_World == <<"W","o","r","l","d">>
T_burg == <<"b","u","r","g">>
T_state == <<"s","t","a","t","e">>
T_province == <<"p","r","o","v","i","n","c","e">>
T_culture == <<"c","u","l","t","u","r","e">>
T_religion == <<"r","e","l","i","g","i","o","n">>
T_feature == <<"f","e","a","t","u","r","e">>

(***************************************************************************)
(* safe_filename                                                           *)
(***************************************************************************)
\* the characters \s matches
IsSpace(c) == c \in {" ", "\t"}

\* re.sub(r"\s+", "_", s): every run of whitespace becomes one underscore
RECURSIVE CollapseWs(_)
CollapseWs(s) ==
    IF s = <<>> THEN <<>>
    ELSE IF IsSpace(Head(s))
         THEN IF Len(s) > 1 /\ IsSpace(s[2]) THEN CollapseWs(Tail(s))
              ELSE <<"_">> \o CollapseWs(Tail(s))
         ELSE <<Head(s)>> \o CollapseWs(Tail(s))

Allowed(c) ==
    \/ InSeq(c, UpperChars) \/ InSeq(c, LowerChars) \/ InSeq(c, DigitChars)
    \/ c \in {".", "_", "-"}

\* re.sub(r"[^A-Za-z0-9._-]", "_", s)
ReplaceDisallowed(s) == [i \in DOMAIN s |-> IF Allowed(s[i]) THEN s[i] ELSE "_"]

\* s.strip("_-")
RECURSIVE LStrip(_)
LStrip(s) ==
    IF s # <<>> /\ Head(s) \in {"_", "-"} THEN LStrip(Tail(s)) ELSE s
RECURSIVE RStrip(_)
RStrip(s) ==
    IF s # <<>> /\ s[Len(s)] \in {"_", "-"}
    THEN RStrip(SubSeq(s, 1, Len(s) - 1)) ELSE s
\* a strip that takes at most one character off each end
Strip_OnePerEnd(s) ==
    LET l == IF s # <<>> /\ Head(s) \in {"_", "-"} THEN Tail(s) ELSE s
    IN IF l # <<>> /\ l[Len(l)] \in {"_", "-"} THEN SubSeq(l, 1, Len(l) - 1) ELSE l
Strip(s) == RStrip(LStrip(s))

safe_filename(name) ==
    IF name = <<>> THEN T_unnamed
    ELSE LET s == Strip(ReplaceDisallowed(CollapseWs(name)))
         IN IF s = <<>> THEN T_unnamed ELSE s

(***************************************************************************)
(* JSON values and note contents                                           *)
(***************************************************************************)
\* a JSON value used as an id: an integer or a string
IntVal(n) == [t |-> "int", n |-> n, s |-> <<>>]
StrVal(s) == [t |-> "str", n |-> 0, s |-> s]

\* str(v), and the text an f-string puts for {v}
PyStr(v) == IF v.t = "int" THEN NatStr(v.n) ELSE v.s

NoFm == [id |-> IntVal(0), name |-> <<>>, cell |-> 0,
         emblem_url |-> <<>>, mfcg_assets |-> <<>>, rest |-> <<>>]
NoBody == [name |-> <<>>, emblem |-> <<>>, cell |-> 0, assets |-> <<>>]

\* the content of a copied or written asset, and of a note
Blob(b) == [kind |-> "blob", bytes |-> b, fm |-> NoFm, body |-> NoBody]
Note(fm, body) == [kind |-> "note", bytes |-> "", fm |-> fm, body |-> body]

(***************************************************************************)
(* The vault as a file system: fs = [files, dirs], paths relative to the   *)
(* vault root; the root itself is the empty path.                          *)
(***************************************************************************)
EmptyFiles == [p \in {} |-> Blob("")]
FS == [files |-> files, dirs |-> dirs]

Prefixes(p) == {SubSeq(p, 1, k) : k \in 1..Len(p)}
Parent(p) == SubSeq(p, 1, Len(p) - 1)

IsFile(fs, p) == p \in DOMAIN fs.files
IsDir(fs, p) == p = <<>> \/ p \in fs.dirs
Exists(fs, p) == IsFile(fs, p) \/ IsDir(fs, p)

\* os.makedirs(p, exist_ok=True) raises when a component of p is a file
MakedirsOk(fs, p) == \A q \in Prefixes(p) : ~IsFile(fs, q)
Makedirs(fs, p) == [fs EXCEPT !.dirs = @ \cup Prefixes(p)]

\* open(p, "w") raises OSError when the parent is no directory or p is one
CanOpenW(fs, p) == p # <<>> /\ IsDir(fs, Parent(p)) /\ ~IsDir(fs, p)
WriteFile(fs, p, c) == [fs EXCEPT !.files = (p :> c) @@ @]

\* shutil.copy(src, dst): into dst when dst is a directory
CopyTarget(fs, dst, base) == IF IsDir(fs, dst) THEN dst \o <<base>> ELSE dst

\* a set as a sequence, in the fixed order a directory listing gives it
RECURSIVE SeqOf(_)
SeqOf(S) ==
    IF S = {} THEN <<>>
    ELSE LET x == CHOOSE y \in S : TRUE IN <<x>> \o SeqOf(S \ {x})

\* os.walk(d): the files of d, then the walk of each subdirectory
RECURSIVE Walk(_, _)
RECURSIVE WalkAll(_, _)
Walk(fs, d) ==
    SeqOf({p \in DOMAIN fs.files : Parent(p) = d})
        \o WalkAll(fs, SeqOf({q \in fs.dirs : q # <<>> /\ Parent(q) = d}))
WalkAll(fs, ds) ==
    IF ds = <<>> THEN <<>> ELSE Walk(fs, Head(ds)) \o WalkAll(fs, Tail(ds))

(***************************************************************************)
(* Emblems: save_emblem_svg, save_emblem_image, get_emblem_for.            *)
(* An emblem source is a text; ExtFiles are the local files outside the    *)
(* vault.  Each operator returns the new vault and the vault-relative url. *)
(***************************************************************************)
T_art_png == <<"a","r","t","/","c",".","p","n","g">>
T_gone_png == <<"a","r","t","/","m",".","p","n","g">>
T_url_png == T_http \o <<"h","/","c",".","p","n","g">>
ExtFiles == {T_art_png}
\* the runs are made without --download-emblems
DOWNLOAD_EMBLEMS == FALSE

\* str(emblem_src).split(".")[-1]
RECURSIVE LastAfterDot(_)
LastAfterDot(s) ==
    IF ~InSeq(".", s) THEN s
    ELSE LET k == CHOOSE i \in DOMAIN s :
                     s[i] = "." /\ \A j \in 1..(i - 1) : s[j] # "."
         IN LastAfterDot(SubSeq(s, k + 1, Len(s)))

save_emblem_svg(fs, obj_type, obj_id, svg_data) ==
    LET filename == obj_type \o <<"-">> \o obj_id \o <<".">> \o T_svg
        path == PathOf(<<T_emblems, filename>>)
    IN IF CanOpenW(fs, path)
       THEN [fs |-> WriteFile(fs, path, Blob(svg_data)),
             url |-> T_emblems \o <<"/">> \o filename]
       ELSE [fs |-> fs, url |-> <<>>]

save_emblem_image(fs, src_path, obj_type, obj_id, ext) ==
    LET filename == obj_type \o <<"-">> \o obj_id \o <<".">> \o ext
        dst_text == T_World \o <<"/">> \o T_emblems \o <<"/">> \o filename
        dst == PathOf(<<T_emblems, filename>>)
        url == T_emblems \o <<"/">> \o filename
    IN IF (IsPrefix(T_http, src_path) \/ IsPrefix(T_https, src_path))
             /\ ~DOWNLOAD_EMBLEMS
       THEN [fs |-> fs, url |-> <<>>]       \* download is False: warn, ""
       ELSE IF src_path = dst_text
       THEN [fs |-> fs, url |-> url]        \* source is the destination
       ELSE IF src_path \notin ExtFiles
       THEN [fs |-> fs, url |-> <<>>]       \* local file not found
       ELSE IF CanOpenW(fs, CopyTarget(fs, dst, filename))
       THEN [fs |-> WriteFile(fs, CopyTarget(fs, dst, filename), Blob("png")),
             url |-> url]
       ELSE [fs |-> fs, url |-> <<>>]       \* OSError: warn, ""

\* the emblem_url text of an element, from its emb tag
EmblemSrc(obj_type, obj_id, emb) ==
    CASE emb = "local" -> T_art_png
      [] emb = "missing" -> T_gone_png
      [] emb = "url" -> T_url_png
      [] emb = "self" -> T_World \o <<"/">> \o T_emblems \o <<"/">>
                            \o obj_type \o <<"-">> \o obj_id \o <<".","p","n","g">>
      [] OTHER -> <<>>

get_emblem_for(fs, obj_type, obj, obj_id) ==
    IF obj.emb = "svg" THEN save_emblem_svg(fs, obj_type, obj_id, "svg")
    ELSE LET emblem_src == EmblemSrc(obj_type, obj_id, obj.emb)
         IN IF emblem_src # <<>>
            THEN save_emblem_image(fs, emblem_src, obj_type, obj_id,
                                   LastAfterDot(emblem_src))
            ELSE [fs |-> fs, url |-> <<>>]

(***************************************************************************)
(* integrate_mfcg_assets.  A source-root entry is                          *)
(*   [name, isDir, bytes, tree, ok]: a file with its bytes, or a directory *)
(*   with tree, the sequence of [rel, bytes, ok] of the files below it;    *)
(*   ok tells whether copying the file succeeds.                           *)
(* The state of the call is st = [fs, copied, raised]; raised tells that   *)
(* an exception is on its way to the except clause of line 269.            *)
(***************************************************************************)
T_BurgDash == <<"B","u","r","g","-">>
T_burgDash == <<"b","u","r","g","-">>

\* lines 215-216: the test that makes an entry a candidate
CandidateMatch(entry_low, burg_id, safe_name) ==
    \/ entry_low \in {T_burgDash \o PyStr(burg_id), PyStr(burg_id), Lower(safe_name)}
    \/ Contains(entry_low, T_burgDash \o PyStr(burg_id))
    \/ Contains(entry_low, Lower(safe_name))

\* line 257: the test of the root-file loop
RootFileMatch(entry_low, burg_id, safe_name) ==
    \/ Contains(entry_low, T_burgDash \o PyStr(burg_id))
    \/ Contains(entry_low, PyStr(burg_id))
    \/ Contains(entry_low, Lower(safe_name))

\* line 220
DestBase(burg_id, safe_name) ==
    PathOf(<<T_Burgs, T_BurgDash \o PyStr(burg_id) \o <<"-">> \o safe_name, T_mfcg>>)

\* a copytree that drops the relative structure: every file lands directly
\* in dest_sub under its base name
CopyTree_Flat(fs, c, dest_sub) ==
    LET ix == {i \in DOMAIN c.tree : c.tree[i].ok}
        base(i) == <<c.tree[i].rel[Len(c.tree[i].rel)]>>
        newFiles == [p \in {dest_sub \o base(i) : i \in ix} |->
                        Blob(c.tree[CHOOSE i \in ix : dest_sub \o base(i) = p].bytes)]
    IN [files |-> newFiles @@ fs.files, dirs |-> fs.dirs \cup {dest_sub}]

\* shutil.copytree(c, dest_sub): dest_sub, its subdirectories and its
\* files; a file that cannot be copied is left out and the others are
\* copied all the same
CopyTree(fs, c, dest_sub) ==
    LET ix == {i \in DOMAIN c.tree : c.tree[i].ok}
        newDirs == {dest_sub} \cup
                   UNION {Prefixes(dest_sub \o Parent(c.tree[i].rel)) :
                             i \in DOMAIN c.tree}
        newFiles == [p \in {dest_sub \o c.tree[i].rel : i \in ix} |->
                        Blob(c.tree[CHOOSE i \in ix : dest_sub \o c.tree[i].rel = p].bytes)]
    IN [files |-> newFiles @@ fs.files, dirs |-> fs.dirs \cup newDirs]

\* a directory step that, finding dest_sub in place, copies the directory
\* again beside it under a new name instead of skipping the copy
DirStep_Rename(st, c, dest_base) ==
    IF ~c.isDir THEN st
    ELSE LET dest_sub == dest_base \o <<c.name>>
             again == dest_base \o <<c.name \o <<"_", "1">>>>
             fs1 == IF Exists(st.fs, dest_sub) THEN CopyTree(st.fs, c, again)
                    ELSE CopyTree(st.fs, c, dest_sub)
         IN [fs |-> fs1, copied |-> st.copied \o Walk(fs1, dest_sub),
             raised |-> FALSE]

\* shutil.copytree raises shutil.Error, after the copy, when a file of the
\* tree could not be copied
CopyTreeRaises(c) == \E i \in DOMAIN c.tree : ~c.tree[i].ok

\* lines 237-243, the fallback after copytree raised: the directories are
\* made again and the files copied one by one with no try around the copy,
\* so the file that made copytree fail raises again, out of the handler
FallbackCopy(fs, c, dest_sub) ==
    [fs |-> CopyTree(fs, c, dest_sub), raised |-> CopyTreeRaises(c)]

\* lines 226-248: one candidate that is a directory
DirStep(st, c, dest_base) ==
    IF ~c.isDir THEN st
    ELSE LET dest_sub == dest_base \o <<c.name>>
             cp == IF Exists(st.fs, dest_sub) THEN [fs |-> st.fs, raised |-> FALSE]
                   ELSE IF ~CopyTreeRaises(c)
                   THEN [fs |-> CopyTree(st.fs, c, dest_sub), raised |-> FALSE]
                   ELSE FallbackCopy(CopyTree(st.fs, c, dest_sub), c, dest_sub)
         IN IF cp.raised
            THEN [fs |-> cp.fs, copied |-> st.copied, raised |-> TRUE]
            ELSE [fs |-> cp.fs, copied |-> st.copied \o Walk(cp.fs, dest_sub),
                  raised |-> FALSE]

\* lines 258-266: one entry of the root-file loop
RootFileStep(st, entry, burg_id, safe_name, dest_base) ==
    LET dst == dest_base \o <<entry.name>>
        tgt == CopyTarget(st.fs, dst, entry.name)
    IN IF RootFileMatch(Lower(entry.name), burg_id, safe_name) /\ ~entry.isDir
       THEN IF entry.ok /\ CanOpenW(st.fs, tgt)
            THEN [fs |-> WriteFile(st.fs, tgt, Blob(entry.bytes)),
                  copied |-> Append(st.copied, dst), raised |-> FALSE]
            ELSE st                          \* line 265: warn, next entry
       ELSE st

\* lines 255-266: for entry in os.listdir(src_root)
RECURSIVE RootFilesLoop(_, _, _, _, _, _)
RootFilesLoop(st, k, ls, burg_id, safe_name, dest_base) ==
    IF k > Len(ls) THEN st
    ELSE RootFilesLoop(RootFileStep(st, ls[k], burg_id, safe_name, dest_base),
                       k + 1, ls, burg_id, safe_name, dest_base)

\* lines 225-266: for c in candidates; the root-file loop is inside its body
RECURSIVE CandidatesLoop(_, _, _, _, _, _, _)
CandidatesLoop(st, k, candidates, ls, burg_id, safe_name, dest_base) ==
    IF k > Len(candidates) THEN st
    ELSE IF DirStep(st, candidates[k], dest_base).raised
    THEN DirStep(st, candidates[k], dest_base)
    ELSE CandidatesLoop(
            RootFilesLoop(DirStep(st, candidates[k], dest_base),
                          1, ls, burg_id, safe_name, dest_base),
            k + 1, candidates, ls, burg_id, safe_name, dest_base)

\* a matcher that does not test whether the source root exists: it takes a
\* root that is not there for an empty one and makes the destination folder
integrate_mfcg_assets_NoExistsTest(fs, burg_id, burg_name, root) ==
    IF ~root.set THEN [fs |-> fs, copied |-> <<>>]
    ELSE LET safe_name == safe_filename(burg_name)
             candidates == SelectSeq(root.listing,
                 LAMBDA e : CandidateMatch(Lower(e.name), burg_id, safe_name))
             dest_base == DestBase(burg_id, safe_name)
         IN IF ~MakedirsOk(fs, dest_base)
            THEN [fs |-> fs, copied |-> <<>>]
            ELSE LET st == CandidatesLoop(
                               [fs |-> Makedirs(fs, dest_base), copied |-> <<>>,
                                raised |-> FALSE],
                               1, candidates, root.listing,
                               burg_id, safe_name, dest_base)
                 IN [fs |-> st.fs, copied |-> IF st.raised THEN <<>> ELSE st.copied]

\* root = [set, exists, listing]: mfcg_root given, src_root exists, listdir
integrate_mfcg_assets(fs, burg_id, burg_name, root) ==
    IF ~root.set \/ ~root.exists THEN [fs |-> fs, copied |-> <<>>]
    ELSE LET safe_name == safe_filename(burg_name)
             candidates == SelectSeq(root.listing,
                 LAMBDA e : CandidateMatch(Lower(e.name), burg_id, safe_name))
             dest_base == DestBase(burg_id, safe_name)
         IN IF ~MakedirsOk(fs, dest_base)
            THEN [fs |-> fs, copied |-> <<>>]    \* line 269: except, return []
            ELSE LET st == CandidatesLoop(
                               [fs |-> Makedirs(fs, dest_base), copied |-> <<>>,
                                raised |-> FALSE],
                               1, candidates, root.listing,
                               burg_id, safe_name, dest_base)
                 IN IF st.raised
                    THEN [fs |-> st.fs, copied |-> <<>>]   \* line 269: return []
                    ELSE [fs |-> st.fs, copied |-> st.copied]

(***************************************************************************)
(* The world document.  An element of a kind's list is                     *)
(*   [shape, hasI, i, hasName, name, hasType, type, hasRest, cell, emb]    *)
(* shape "dict" for a record, "num" for a bare number; hasRest tells       *)
(* whether the record holds its other fields; emb tells which              *)
(* emblem the record carries ("none", "svg", "local", "missing", "self",   *)
(* "url").  A container is [shape, els, hshape, n]: shape "list" with its  *)
(* elements, or "absent", "null", "num", "dict"; for the cells container   *)
(* n is the number of heights and hshape the shape of its "h" column.      *)
(***************************************************************************)
ListKinds == {"burgs", "states", "provinces", "cultures", "religions",
              "features", "rivers"}
KindOrder == <<"cells", "burgs", "states", "provinces", "cultures",
               "religions", "features", "rivers">>
Kinds == {KindOrder[i] : i \in DOMAIN KindOrder}

T_Exact == <<"E","x","a","c","t">>
T_Old_Town == <<"O","l","d"," ","T","o","w","n">>
T_A == <<"A">>
T_B == <<"B">>
T_a_b == <<"a","/","b">>
T_Exact_md == T_Exact \o T_md

Elem(shape, hasI, i, hasName, name, emb) ==
    [shape |-> shape, hasI |-> hasI, i |-> i, hasName |-> hasName, name |-> name,
     hasType |-> hasName, type |-> name, hasRest |-> hasName, cell |-> 5,
     emb |-> emb]
Num == Elem("num", FALSE, IntVal(0), FALSE, <<>>, "none")
Good(n, name) == Elem("dict", TRUE, IntVal(n), TRUE, name, "none")
WithEmblem(n, name, emb) == Elem("dict", TRUE, IntVal(n), TRUE, name, emb)
\* a record whose id is the string "a/b"
BadId(name) == Elem("dict", TRUE, StrVal(T_a_b), TRUE, name, "none")
\* a record with no field at all
Bare == Elem("dict", FALSE, IntVal(0), FALSE, <<>>, "none")

List(els) == [shape |-> "list", els |-> els, hshape |-> "absent", n |-> 0]
Shaped(shape) == [shape |-> shape, els |-> <<>>, hshape |-> "absent", n |-> 0]
CellsOf(shape, hshape, n) == [shape |-> shape, els |-> <<>>, hshape |-> hshape, n |-> n]

\* the well-formed container of each kind
Plain(k) ==
    CASE k = "cells" -> CellsOf("dict", "list", 1)
      [] k = "burgs" -> List(<<Num, Good(8, T_Exact)>>)
      [] k = "rivers" -> List(<<Good(1, T_A)>>)
      [] OTHER -> List(<<Num, Good(1, T_A)>>)

\* the other containers a document may hold for a kind
Odd(k) ==
    CASE k = "cells" ->
            {Shaped("absent"), Shaped("null"), Shaped("num"),
             CellsOf("list", "absent", 2), CellsOf("dict", "absent", 0),
             CellsOf("dict", "num", 0)}
      [] k = "burgs" ->
            {Shaped("absent"), Shaped("null"), Shaped("num"),
             List(<<Num, Num, Good(8, T_Exact)>>),
             List(<<Num, BadId(T_A), Good(8, T_Exact)>>),
             List(<<Num, Num, BadId(T_A), Good(8, T_Exact)>>),
             List(<<Num, WithEmblem(8, T_Exact, "svg"), WithEmblem(3, T_Old_Town, "local")>>),
             List(<<Num, WithEmblem(8, T_Exact, "self"), WithEmblem(3, T_Old_Town, "missing")>>),
             List(<<Num, Bare, Good(3, T_Old_Town), Good(8, T_Exact)>>),
             List(<<Num, Good(8, T_Exact_md), Good(8, T_Exact)>>),
             List(<<Num, Good(8, T_Exact), Good(8, T_Exact_md)>>)}
      [] k = "rivers" ->
            {Shaped("absent"), Shaped("null"),
             List(<<Num, Good(2, T_B)>>),
             List(<<BadId(T_A), Good(2, T_B)>>)}
      [] OTHER ->
            {Shaped("absent"), Shaped("null"), Shaped("num"),
             List(<<Num, Bare, Good(2, T_B)>>),
             List(<<Num, Num, Good(2, T_B)>>),
             List(<<Num, BadId(T_A), Good(2, T_B)>>),
             List(<<Num, WithEmblem(1, T_A, "svg"), WithEmblem(2, T_B, "local")>>),
             List(<<Num, WithEmblem(1, T_A, "self"), WithEmblem(2, T_B, "url")>>)}

PlainPack == [k \in Kinds |-> Plain(k)]

\* the packs with at most n containers that are not the plain one
RECURSIVE PacksWithOdd(_)
PacksWithOdd(n) ==
    IF n = 0 THEN {PlainPack}
    ELSE LET S == PacksWithOdd(n - 1)
         IN S \cup UNION {{[p EXCEPT ![k] = o] : o \in Odd(k), p \in S} : k \in Kinds}

\* doc = [readable, parses, hasPack, packShape, pack]
DocOf(readable, parses, hasPack, packShape, pack) ==
    [readable |-> readable, parses |-> parses, hasPack |-> hasPack,
     packShape |-> packShape, pack |-> pack]
Docs ==
    {DocOf(FALSE, FALSE, FALSE, "null", PlainPack),   \* the file cannot be opened
     DocOf(TRUE, FALSE, FALSE, "null", PlainPack),    \* it is not JSON
     DocOf(TRUE, TRUE, FALSE, "null", PlainPack),     \* no "pack" key
     DocOf(TRUE, TRUE, TRUE, "null", PlainPack),      \* "pack": null
     DocOf(TRUE, TRUE, TRUE, "empty", PlainPack),     \* "pack": {}
     DocOf(TRUE, TRUE, TRUE, "num", PlainPack)}       \* "pack": 5
    \cup {DocOf(TRUE, TRUE, TRUE, "dict", p) : p \in PacksWithOdd(MaxOdd)}

(***************************************************************************)
(* The source root of the MFCG outputs                                      *)
(***************************************************************************)
N_Burg8Exact == <<"B","u","r","g","-","8","-","E","x","a","c","t">>
N_Burg8ExactOther == <<"B","u","r","g","-","8","-","E","x","a","c","t","O","t","h","e","r">>
N_map8 == <<"m","a","p","8">>
N_plan8 == <<"p","l","a","n","-","8",".","p","n","g">>
N_burg8dup == <<"b","u","r","g","-","8","-","d","u","p",".","t","x","t">>
N_Old_Town == <<"O","l","d","_","T","o","w","n">>
N_notes == <<"n","o","t","e","s",".","t","x","t">>
N_8 == <<"8">>
N_a_txt == <<"a",".","t","x","t">>
N_b_txt == <<"b",".","t","x","t">>
N_c_txt == <<"c",".","t","x","t">>
N_assets == <<"a","s","s","e","t","s">>
N_css == <<"c","s","s">>
N_s_css == <<"s",".","c","s","s">>
N_i_html == <<"i",".","h","t","m","l">>
N_some == <<"s","o","m","e">>
N_path == <<"p","a","t","h">>
N_dup_txt == <<"d","u","p","-","f","i","l","e",".","t","x","t">>

FileEntry(name, bytes) ==
    [name |-> name, isDir |-> FALSE, bytes |-> bytes, tree |-> <<>>, ok |-> TRUE]
DirEntry(name, tree) ==
    [name |-> name, isDir |-> TRUE, bytes |-> "", tree |-> tree, ok |-> TRUE]
TreeFile(rel, bytes) == [rel |-> rel, bytes |-> bytes, ok |-> TRUE]
\* a root file that cannot be read, and a file of a tree that cannot be
\* copied (unreadable, or a link to nothing): copying it raises OSError
UnreadableFile(name) ==
    [name |-> name, isDir |-> FALSE, bytes |-> "", tree |-> <<>>, ok |-> FALSE]
BrokenTreeFile(rel) == [rel |-> rel, bytes |-> "", ok |-> FALSE]

\* the entries a source root is drawn from
EntryPool ==
    {DirEntry(N_Burg8Exact, <<TreeFile(<<N_a_txt>>, "x")>>),
     DirEntry(N_Burg8ExactOther, <<TreeFile(<<N_b_txt>>, "y")>>),
     DirEntry(N_map8, <<TreeFile(<<N_c_txt>>, "x")>>),
     DirEntry(N_8, <<>>),
     DirEntry(N_Old_Town, <<TreeFile(<<N_i_html>>, "x"),
                            TreeFile(<<N_assets, N_css, N_s_css>>, "y")>>),
     FileEntry(N_plan8, "x"),
     FileEntry(N_burg8dup, "same"),
     FileEntry(N_notes, "y")}

\* the listings of at most n entries with distinct names
NoDup(l) == \A i, j \in DOMAIN l : i # j => l[i].name # l[j].name
RECURSIVE ListingsOf(_, _)
ListingsOf(pool, n) ==
    IF n = 0 THEN {<<>>}
    ELSE LET S == ListingsOf(pool, n - 1)
             longer == {Append(l, e) : l \in {m \in S : Len(m) = n - 1},
                                       e \in pool}
         IN S \cup {l \in longer : NoDup(l)}
Listings(n) == ListingsOf(EntryPool, n)

RootOf(set, exists, ls) == [set |-> set, exists |-> exists, listing |-> ls]
Root == RootOf(MFCG_DIR, srcExists, listing)

\* the burgs a direct call of the matcher is made for
BurgPool == {[id |-> IntVal(8), name |-> T_Exact],
             [id |-> IntVal(3), name |-> T_Old_Town]}

\* a vault that already holds a file with the bytes of burg-8-dup.txt
DupPath == <<N_some, N_path, N_dup_txt>>
DupVault == [files |-> (DupPath :> Blob("same")),
             dirs |-> {<<N_some>>, <<N_some, N_path>>}]
EmptyVault == [files |-> EmptyFiles, dirs |-> {}]

(***************************************************************************)
(* The transformers.  Each returns [fs, raised]: the vault it leaves and   *)
(* whether an exception left the function.                                 *)
(***************************************************************************)
KindDir(k) ==
    CASE k = "cells" -> T_Cells [] k = "burgs" -> T_Burgs
      [] k = "states" -> T_States [] k = "provinces" -> T_Provinces
      [] k = "cultures" -> T_Cultures [] k = "religions" -> T_Religions
      [] k = "features" -> T_Features [] k = "rivers" -> T_Rivers

\* "Burg-", "State-", ... : the directory name without its s, and a dash
KindPrefix(k) == SubSeq(KindDir(k), 1, Len(KindDir(k)) - 1) \o <<"-">>

\* the obj_type passed to get_emblem_for
EmblemType(k) ==
    CASE k = "burgs" -> T_burg [] k = "states" -> T_state
      [] k = "provinces" -> T_province [] k = "cultures" -> T_culture
      [] k = "religions" -> T_religion [] k = "features" -> T_feature

\* b.get("i", 0), b.get("i", "unknown"), b.get("name", ""), f.get("type", "")
IdOf(b) == IF b.hasI THEN b.i ELSE IntVal(0)
EmblemId(b) == IF b.hasI THEN PyStr(b.i) ELSE T_unknown
NameOf(k, b) ==
    IF k = "features" THEN (IF b.hasType THEN b.type ELSE <<>>)
    ELSE (IF b.hasName THEN b.name ELSE <<>>)

\* the file name each transformer builds, joined to its folder
NotePath(k, b) ==
    PathOf(<<KindDir(k),
             KindPrefix(k) \o PyStr(IdOf(b)) \o <<"-">>
                 \o safe_filename(NameOf(k, b)) \o T_md>>)
CellPath(cid) == PathOf(<<T_Cells, KindPrefix("cells") \o NatStr(cid) \o T_md>>)

\* write_markdown: open(path, "w") and write; an OSError leaves the function
write_markdown(fs, path, fm, body) ==
    IF CanOpenW(fs, path)
    THEN [fs |-> WriteFile(fs, path, Note(fm, body)), raised |-> FALSE]
    ELSE [fs |-> fs, raised |-> TRUE]

\* ensure_vault_dirs
VaultFolders == {T_Cells, T_Burgs, T_States, T_Provinces, T_Cultures,
                 T_Religions, T_Features, T_Rivers, T_emblems}
ensure_vault_dirs(fs) == [fs EXCEPT !.dirs = @ \cup {<<f>> : f \in VaultFolders}]

\* One metadata field read with .get(key, default): the type of the values
\* it holds ("num", "str", "list", "bool"), the default written in the code
\* and a value a record may give, each as the text repr() prints.
Field(name, type, default, given) ==
    [field |-> name, type |-> type, default |-> default, given |-> given]
NumField(name) == Field(name, "num", "0", "7")
StrField(name) == Field(name, "str", "''", "'x'")
ListField(name) == Field(name, "list", "[]", "[1]")
BoolField(name) == Field(name, "bool", "False", "True")

\* the fields of each kind's metadata besides the id, the name (the type
\* of a feature), the cell and the emblem
FieldsOf(k) ==
    CASE k = "cells" ->
            <<Field("x", "num", "0.0", "7.0"), Field("y", "num", "0.0", "7.0"),
              NumField("feature"), NumField("biome"), NumField("burg"),
              NumField("culture"), NumField("state"), NumField("province"),
              NumField("religion"), Field("population", "num", "0.0", "7.0"),
              NumField("river"), NumField("flux"), NumField("harbor_score")>>
      [] k = "burgs" ->
            <<NumField("culture"), NumField("state"), NumField("feature"),
              NumField("population"), StrField("type"), BoolField("capital"),
              BoolField("port"), BoolField("citadel"), BoolField("plaza"),
              BoolField("temple"), BoolField("walls")>>
      [] k = "states" ->
            <<StrField("form"), NumField("culture"), NumField("capital_burg"),
              ListField("provinces"), ListField("neighbors"), ListField("burgs")>>
      [] k = "provinces" ->
            <<NumField("state"), NumField("capital_burg"), ListField("burgs"),
              ListField("cells")>>
      [] k = "cultures" ->
            <<ListField("origins"), StrField("color"),
              Field("expansionism", "num", "1.0", "7.0")>>
      [] k = "religions" ->
            <<StrField("type"), StrField("deity"), NumField("culture")>>
      [] k = "features" ->
            <<StrField("group"), ListField("cells")>>
      [] k = "rivers" ->
            <<NumField("source_cell"), NumField("mouth_cell"), NumField("basin"),
              ListField("cells"), NumField("length_km"), NumField("flux")>>

\* the values these fields get for a record that holds them, or lacks them
RestOf(k, hasRest) ==
    [i \in DOMAIN FieldsOf(k) |->
        [field |-> FieldsOf(k)[i].field, type |-> FieldsOf(k)[i].type,
         val |-> IF hasRest THEN FieldsOf(k)[i].given ELSE FieldsOf(k)[i].default]]

\* the body of the loop of process_burgs, process_states, ..., process_rivers
\* for one element b of kind k
ProcessElement(fs, k, b, root) ==
    IF b.shape # "dict" THEN [fs |-> fs, raised |-> FALSE]
    ELSE LET em == IF k = "rivers" THEN [fs |-> fs, url |-> <<>>]
                   ELSE get_emblem_for(fs, EmblemType(k), b, EmblemId(b))
             mf == IF k = "burgs"
                   THEN integrate_mfcg_assets(em.fs, IdOf(b), NameOf(k, b), root)
                   ELSE [fs |-> em.fs, copied |-> <<>>]
             fm == [id |-> IdOf(b), name |-> NameOf(k, b), cell |-> b.cell,
                    emblem_url |-> em.url, mfcg_assets |-> mf.copied,
                    rest |-> RestOf(k, b.hasRest)]
             body == [name |-> NameOf(k, b), emblem |-> em.url, cell |-> b.cell,
                      assets |-> mf.copied]
             w == write_markdown(mf.fs, NotePath(k, b), fm, body)
         IN \* process_rivers writes inside its try: the error is logged
            [fs |-> w.fs, raised |-> w.raised /\ k # "rivers"]

\* process_cells: the number of heights, or -1 when reading them raises
Heights(cells) ==
    CASE cells.shape = "absent" -> 0
      [] cells.shape = "list" -> cells.n
      [] cells.shape = "dict" ->
            (CASE cells.hshape = "absent" -> 0
               [] cells.hshape = "list" -> cells.n
               [] OTHER -> -1)
      [] OTHER -> -1

RECURSIVE CellsLoop(_, _, _)
CellsLoop(fs, cid, n) ==
    IF cid >= n THEN [fs |-> fs, raised |-> FALSE]
    ELSE LET w == write_markdown(fs, CellPath(cid),
                                 [NoFm EXCEPT !.id = IntVal(cid),
                                              !.rest = RestOf("cells", FALSE)],
                                 NoBody)
         IN IF w.raised THEN w ELSE CellsLoop(w.fs, cid + 1, n)

NextKind(k) ==
    LET i == CHOOSE j \in DOMAIN KindOrder : KindOrder[j] = k
    IN IF i = Len(KindOrder) THEN "done" ELSE KindOrder[i + 1]
\* burgs[1:] and its like skip element 0; rivers are read from element 0
FirstIdx(k) == IF k = "rivers" THEN 1 ELSE 2

(***************************************************************************)
(* The run of the pipeline                                                 *)
(***************************************************************************)
DirectVars == <<burg, ret, calls, pre, MFCG_MATCH_MODE, MFCG_DEDUPE>>
SafeVars == <<sf_name, sf_result, sf_again, sf_step>>
\* no call of safe_filename alone is under way
SafeIdle == sf_name = <<>> /\ sf_result = <<>> /\ sf_again = <<>> /\ sf_step = 0
InputVars == <<doc, MFCG_DIR, srcExists, listing>>

Exit(code, kind) ==
    /\ pc' = "exit"
    /\ exitCode' = code
    /\ raisedIn' = kind
    /\ idx' = idx

\* lines 585-597: create the folders, read the file, find "pack"
Main_Load ==
    /\ pc = "start"
    /\ dirs' = ensure_vault_dirs(FS).dirs
    /\ files' = files
    /\ IF ~doc.readable THEN Exit(2, "")
       ELSE IF ~doc.parses THEN Exit(1, "")
       ELSE IF ~doc.hasPack \/ doc.packShape \in {"null", "empty"} THEN Exit(2, "")
       ELSE pc' = "cells" /\ idx' = 0 /\ exitCode' = exitCode /\ raisedIn' = ""
    /\ UNCHANGED <<InputVars, DirectVars, SafeVars, run, files1, dirs1>>

\* line 599
process_cells ==
    /\ pc = "cells"
    /\ LET n == IF doc.packShape = "dict" THEN Heights(doc.pack["cells"]) ELSE -1
           r == IF n < 0 THEN [fs |-> FS, raised |-> TRUE] ELSE CellsLoop(FS, 0, n)
       IN /\ files' = r.fs.files
          /\ dirs' = r.fs.dirs
          /\ IF r.raised THEN Exit(1, "cells")
             ELSE /\ pc' = "burgs" /\ idx' = FirstIdx("burgs")
                  /\ UNCHANGED <<exitCode, raisedIn>>
    /\ UNCHANGED <<InputVars, DirectVars, SafeVars, run, files1, dirs1>>

\* lines 600-606: one step of the transformer of list kind k
ProcessList(k) ==
    /\ pc = k
    /\ LET cont == doc.pack[k]
           els == IF cont.shape = "absent" THEN <<>> ELSE cont.els
       IN IF cont.shape \notin {"list", "absent"} \/ idx > Len(els)
          THEN \* not a list, or past the last element: the next kind
               /\ UNCHANGED <<files, dirs, raisedIn>>
               /\ pc' = NextKind(k)
               /\ idx' = IF NextKind(k) = "done" THEN idx ELSE FirstIdx(NextKind(k))
               /\ exitCode' = IF NextKind(k) = "done" THEN 0 ELSE exitCode
          ELSE LET r == ProcessElement(FS, k, els[idx], Root)
               IN /\ files' = r.fs.files
                  /\ dirs' = r.fs.dirs
                  /\ IF r.raised THEN Exit(1, k)
                     ELSE /\ pc' = k /\ idx' = idx + 1
                          /\ UNCHANGED <<exitCode, raisedIn>>
    /\ UNCHANGED <<InputVars, DirectVars, SafeVars, run, files1, dirs1>>

process_burgs == ProcessList("burgs")
process_states == ProcessList("states")
process_provinces == ProcessList("provinces")
process_cultures == ProcessList("cultures")
process_religions == ProcessList("religions")
process_features == ProcessList("features")
process_rivers == ProcessList("rivers")

\* the same command is run again on the vault the first run left
Rerun ==
    /\ pc \in {"done", "exit"}
    /\ run = 1
    /\ run' = 2
    /\ files1' = files
    /\ dirs1' = dirs
    /\ pc' = "start"
    /\ idx' = 0
    /\ exitCode' = -1
    /\ raisedIn' = ""
    /\ UNCHANGED <<InputVars, DirectVars, SafeVars, files, dirs>>

\* the source roots a run of the pipeline is given with --mfcg-dir
PipelineRoots ==
    {RootOf(FALSE, FALSE, <<>>),
     RootOf(TRUE, FALSE, <<>>),
     RootOf(TRUE, TRUE, <<DirEntry(N_Burg8Exact, <<TreeFile(<<N_a_txt>>, "x")>>),
                          FileEntry(N_burg8dup, "same")>>)}

Init ==
    /\ doc \in Docs
    /\ \E r \in PipelineRoots :
          MFCG_DIR = r.set /\ srcExists = r.exists /\ listing = r.listing
    /\ files = EmptyFiles
    /\ dirs = {}
    /\ pc = "start"
    /\ idx = 0
    /\ exitCode = -1
    /\ raisedIn = ""
    /\ run = 1
    /\ files1 = EmptyFiles
    /\ dirs1 = {}
    /\ burg = [id |-> IntVal(8), name |-> T_Exact]
    /\ ret = <<>>
    /\ calls = 0
    /\ pre = EmptyVault
    /\ MFCG_MATCH_MODE = "substring"
    /\ MFCG_DEDUPE = FALSE
    /\ SafeIdle

Next ==
    \/ Main_Load
    \/ process_cells
    \/ process_burgs
    \/ process_states
    \/ process_provinces
    \/ process_cultures
    \/ process_religions
    \/ process_features
    \/ process_rivers
    \/ Rerun

Spec == Init /\ [][Next]_vars

(***************************************************************************)
(* Direct calls of integrate_mfcg_assets, as the tests make them: a caller *)
(* sets the module attributes, then calls the matcher on a source root and *)
(* a vault, and may call it again on what the call left.                   *)
(***************************************************************************)
PipelineVars == <<doc, pc, idx, exitCode, raisedIn, run, files1, dirs1>>

\* what a caller sets before the call: (MFCG_MATCH_MODE, MFCG_DEDUPE)
CallerSettings == {<<"substring", FALSE>>, <<"exact", FALSE>>, <<"substring", TRUE>>}

DirectRoots ==
    {RootOf(FALSE, FALSE, <<>>), RootOf(TRUE, FALSE, <<>>)}
    \cup {RootOf(TRUE, TRUE, l) : l \in Listings(MaxEntries)}

InitMfcg ==
    /\ doc = DocOf(FALSE, FALSE, FALSE, "null", PlainPack)
    /\ pc = "direct"
    /\ idx = 0
    /\ exitCode = -1
    /\ raisedIn = ""
    /\ run = 1
    /\ files1 = EmptyFiles
    /\ dirs1 = {}
    /\ burg \in BurgPool
    /\ \E r \in DirectRoots :
          MFCG_DIR = r.set /\ srcExists = r.exists /\ listing = r.listing
    /\ \E v \in {EmptyVault, DupVault} : files = v.files /\ dirs = v.dirs
    /\ \E s \in CallerSettings : MFCG_MATCH_MODE = s[1] /\ MFCG_DEDUPE = s[2]
    /\ SafeIdle
    /\ ret = <<>>
    /\ calls = 0
    /\ pre = EmptyVault

\* copied = integrate_mfcg_assets(burg_id, burg_name, mfcg_root, vault)
CallIntegrate ==
    /\ pc = "direct"
    /\ calls < MaxCalls
    /\ LET r == integrate_mfcg_assets(FS, burg.id, burg.name, Root)
       IN /\ files' = r.fs.files
          /\ dirs' = r.fs.dirs
          /\ ret' = r.copied
    /\ pre' = FS
    /\ calls' = calls + 1
    /\ UNCHANGED <<InputVars, PipelineVars, SafeVars, burg, MFCG_MATCH_MODE, MFCG_DEDUPE>>

NextMfcg == CallIntegrate

SpecMfcg == InitMfcg /\ [][NextMfcg]_vars

(***************************************************************************)
(* Claims about the pipeline (specification Spec)                          *)
(***************************************************************************)
PackIsDict == doc.readable /\ doc.parses /\ doc.hasPack /\ doc.packShape = "dict"
Ended == pc \in {"done", "exit"}

\* the elements of kind k's list (empty when the container is no list)
ElsOf(k) == IF doc.pack[k].shape = "list" THEN doc.pack[k].els ELSE <<>>

\* the note of element b of kind k is in the vault
HasNote(k, b) ==
    /\ IsFile(FS, NotePath(k, b))
    /\ files[NotePath(k, b)].kind = "note"
    /\ files[NotePath(k, b)].fm.id = IdOf(b)

\* the run is past kind k: a later transformer runs, or the run has ended
\* after k's transformer was entered
PastKind(k) ==
    LET i == CHOOSE j \in DOMAIN KindOrder : KindOrder[j] = k
    IN \/ pc = "done"
       \/ \E j \in (i + 1)..Len(KindOrder) : pc = KindOrder[j]
       \/ pc = "exit" /\ \E j \in i..Len(KindOrder) : raisedIn = KindOrder[j]

\* C1: in process_burgs an element at index >= 1 that is no record produces
\* no note and does not stop the loop: once process_burgs is over, every
\* later record-shaped element of the list has its note in the vault.
C1_LaterRecordsGetNotes ==
    (PackIsDict /\ PastKind("burgs")) =>
        \A k \in 2..Len(ElsOf("burgs")) :
            ElsOf("burgs")[k].shape # "dict" =>
                \A j \in (k + 1)..Len(ElsOf("burgs")) :
                    ElsOf("burgs")[j].shape = "dict" =>
                        HasNote("burgs", ElsOf("burgs")[j])

\* C2: when the file opens and parses and its root holds a "pack" object,
\* whatever its contents, the run ends at the end of the pipeline with
\* exit code 0; exit code 2 only when the file is unreadable or "pack" is
\* absent ("pack": null is counted as absent).
C2_ExitZeroWithPack ==
    /\ (Ended /\ doc.readable /\ doc.parses /\ doc.hasPack
            /\ doc.packShape \in {"dict", "empty"})
          => (pc = "done" /\ exitCode = 0)
    /\ exitCode = 2 => (~doc.readable \/ ~doc.hasPack \/ doc.packShape = "null")

\* C3: for each of the eight kinds, when the kind's container has the wrong
\* shape, its transformer writes no note, does not raise, and the run goes
\* on with the next kind.
WrongShape(k) == PackIsDict /\ doc.pack[k].shape \in {"null", "num"}
C3_WrongShapeSkipsKind ==
    [][\A k \in Kinds :
          (pc = k /\ WrongShape(k)) => (files' = files /\ pc' = NextKind(k))]_vars

\* C4: an error raised while one element is processed, a failure of the
\* note writer included, never leaves the element: no run ends by an
\* exception raised in the transformer of a list kind.
C4_ElementErrorsContained ==
    \A k \in ListKinds : ~(pc = "exit" /\ raisedIn = k)

Called == pc = "direct" /\ calls > 0 /\ MFCG_DIR /\ srcExists

SafeName == safe_filename(burg.name)
EntryDest(e) == DestBase(burg.id, SafeName) \o <<e.name>>

\* the three tokens of the settlement: "burg-<id>", the id, the safe name
Tokens == {T_burgDash \o PyStr(burg.id), PyStr(burg.id), Lower(SafeName)}
NameHasToken(e) == \E t \in Tokens : Lower(e.name) = t \/ Contains(Lower(e.name), t)

\* the entry was processed: it is in the settlement's mfcg folder, a
\* directory with its files
Processed(e) ==
    IF e.isDir
    THEN /\ IsDir(FS, EntryDest(e))
         /\ \A j \in DOMAIN e.tree : IsFile(FS, EntryDest(e) \o e.tree[j].rel)
    ELSE IsFile(FS, EntryDest(e))

\* C5: in substring mode a top-level entry, file or directory, is matched
\* and processed if and only if its lowercase name equals or contains one
\* of the three tokens.
C5_SubstringMatch ==
    (Called /\ MFCG_MATCH_MODE = "substring") =>
        \A i \in DOMAIN listing : NameHasToken(listing[i]) <=> Processed(listing[i])

\* C6: in exact mode, for settlement 8 "Exact", the files of Burg-8-Exact
\* are returned and no returned path comes from Burg-8-ExactOther.
C6_ExactMode ==
    (Called /\ MFCG_MATCH_MODE = "exact" /\ burg = [id |-> IntVal(8), name |-> T_Exact]) =>
        /\ \A i \in DOMAIN ret : ~InSeq(N_Burg8ExactOther, ret[i])
        /\ (\E i \in DOMAIN listing : listing[i].name = N_Burg8Exact) =>
              InSeq(DestBase(burg.id, SafeName) \o <<N_Burg8Exact, N_a_txt>>, ret)

\* C7: with de-duplication on, when a matched source file has the bytes of
\* a file the vault already holds under another path, the call returns the
\* path of that file and creates no copy.
C7_DedupeReusesExisting ==
    (Called /\ MFCG_DEDUPE) =>
        \A i \in DOMAIN listing :
            LET e == listing[i]
            IN (/\ ~e.isDir
                /\ NameHasToken(e)
                /\ \E p \in DOMAIN pre.files :
                      p # EntryDest(e) /\ pre.files[p] = Blob(e.bytes))
               => /\ \E p \in DOMAIN pre.files :
                        p # EntryDest(e) /\ pre.files[p] = Blob(e.bytes) /\ InSeq(p, ret)
                  /\ ~IsFile(FS, EntryDest(e))

\* the entry is one of the call's candidates (the test of lines 215-216)
IsCandidate(e) == CandidateMatch(Lower(e.name), burg.id, SafeName)

C10_RootFilesCopied ==
    Called =>
        \A i \in DOMAIN listing :
            LET e == listing[i]
            IN (~e.isDir /\ NameHasToken(e)) =>
                /\ IsFile(FS, EntryDest(e))
                /\ files[EntryDest(e)] = Blob(e.bytes)
                /\ InSeq(EntryDest(e), ret)

(***************************************************************************)
(* Direct calls of integrate_mfcg_assets on a source root where some       *)
(* copies fail (specification SpecFault)                                   *)
(***************************************************************************)
N_burg8bad == <<"b","u","r","g","-","8","-","b","a","d">>
N_burg8lock == <<"b","u","r","g","-","8","-","l","o","c","k",".","t","x","t">>
N_link == <<"l","i","n","k">>

\* a source root with a directory that holds a file no copy can read, and
\* a root file no copy can read
FaultPool ==
    {DirEntry(N_Burg8Exact, <<TreeFile(<<N_a_txt>>, "x")>>),
     DirEntry(N_burg8bad, <<TreeFile(<<N_b_txt>>, "y"), BrokenTreeFile(<<N_link>>)>>),
     DirEntry(N_Old_Town, <<TreeFile(<<N_i_html>>, "x")>>),
     FileEntry(N_burg8dup, "same"),
     UnreadableFile(N_burg8lock),
     FileEntry(N_notes, "y")}

FaultRoots == {RootOf(TRUE, TRUE, l) : l \in ListingsOf(FaultPool, MaxEntries)}

InitFault ==
    /\ doc = DocOf(FALSE, FALSE, FALSE, "null", PlainPack)
    /\ pc = "direct"
    /\ idx = 0
    /\ exitCode = -1
    /\ raisedIn = ""
    /\ run = 1
    /\ files1 = EmptyFiles
    /\ dirs1 = {}
    /\ burg \in BurgPool
    /\ \E r \in FaultRoots :
          MFCG_DIR = r.set /\ srcExists = r.exists /\ listing = r.listing
    /\ files = EmptyFiles
    /\ dirs = {}
    /\ MFCG_MATCH_MODE = "substring"
    /\ MFCG_DEDUPE = FALSE
    /\ SafeIdle
    /\ ret = <<>>
    /\ calls = 0
    /\ pre = EmptyVault

SpecFault == InitFault /\ [][NextMfcg]_vars

\* the entry is one the call works on: a candidate directory, or a root
\* file that passes the test of line 257 while the root-file loop runs
Matched(e) ==
    IF e.isDir THEN IsCandidate(e)
    ELSE /\ RootFileMatch(Lower(e.name), burg.id, SafeName)
         /\ \E i \in DOMAIN listing : IsCandidate(listing[i])

\* the copy of the entry failed in the call
CopyFailed(e) ==
    IF e.isDir THEN CopyTreeRaises(e) /\ ~Exists(pre, EntryDest(e))
    ELSE ~e.ok

\* the paths the entry gives are in the returned list
PathsReturned(e) ==
    IF e.isDir
    THEN \A j \in DOMAIN e.tree :
            e.tree[j].ok => InSeq(EntryDest(e) \o e.tree[j].rel, ret)
    ELSE InSeq(EntryDest(e), ret)

\* C11: when the copy of one matched entry fails inside
\* integrate_mfcg_assets, the other matched entries of the settlement are
\* still processed and their paths are in the returned list.
C11_CopyFailureKeepsOthers ==
    Called =>
        \A i \in DOMAIN listing :
            (Matched(listing[i]) /\ CopyFailed(listing[i])) =>
                \A j \in DOMAIN listing \ {i} :
                    (Matched(listing[j]) /\ ~CopyFailed(listing[j]))
                        => PathsReturned(listing[j])

(***************************************************************************)
(* Claims about the list integrate_mfcg_assets returns (SpecMfcg)          *)
(***************************************************************************)
\* the positions of the returned list whose path was produced from entry e
PositionsFrom(e) ==
    {k \in DOMAIN ret :
        IF e.isDir
        THEN IsPrefix(EntryDest(e), ret[k]) /\ Len(ret[k]) > Len(EntryDest(e))
        ELSE ret[k] = EntryDest(e)}

\* C12: the returned list follows the listing order of the source root:
\* when e1 is listed before e2, every returned path produced from e1 comes
\* before every returned path produced from e2.
C12_ListingOrder ==
    Called =>
        \A i, j \in DOMAIN listing :
            i < j =>
                \A a \in PositionsFrom(listing[i]) :
                    \A b \in PositionsFrom(listing[j]) : a < b

\* C18: the returned list never holds the same vault-relative path twice.
C18_NoDuplicatePaths ==
    (pc = "direct" /\ calls > 0) =>
        \A a, b \in DOMAIN ret : a # b => ret[a] # ret[b]

\* C17: when source_root is absent or does not exist, the call returns the
\* empty list at once and creates no file and no directory in the vault.
C17_MissingRootReturnsEmpty ==
    (pc = "direct" /\ calls > 0 /\ (~MFCG_DIR \/ ~srcExists)) =>
        /\ ret = <<>>
        /\ files = pre.files
        /\ dirs = pre.dirs

\* a call was made with a source root that is given but does not exist, on
\* a vault that already holds a file
C17_Witness ==
    /\ pc = "direct" /\ calls > 0
    /\ MFCG_DIR /\ ~srcExists
    /\ IsFile(FS, DupPath)

(***************************************************************************)
(* Claims about the notes the pipeline writes (specification Spec)         *)
(***************************************************************************)
\* the path the specification gives the note of a river or a cell:
\* <Kind>s/<Kind>-<id>.md
IdOnlyPath(k, id) == PathOf(<<KindDir(k), KindPrefix(k) \o PyStr(id) \o T_md>>)

\* C13: the note of every river is at Rivers/River-<id>.md and the note of
\* every cell at Cells/Cell-<id>.md: the file name holds the kind and the
\* id only.
C13_IdOnlyFileNames ==
    (PackIsDict /\ pc = "done") =>
        /\ \A cid \in 0..(Heights(doc.pack["cells"]) - 1) :
              IsFile(FS, IdOnlyPath("cells", IntVal(cid)))
        /\ \A j \in DOMAIN ElsOf("rivers") :
              ElsOf("rivers")[j].shape = "dict" =>
                  IsFile(FS, IdOnlyPath("rivers", IdOf(ElsOf("rivers")[j])))

\* the notes of the Burgs folder written for settlement b
NotesOf(b) ==
    {p \in DOMAIN files :
        /\ p[1] = T_Burgs
        /\ files[p].kind = "note"
        /\ files[p].fm.id = IdOf(b)
        /\ files[p].fm.name = NameOf("burgs", b)}

\* C14: for every record-shaped settlement with id n, name s and cell c,
\* process_burgs writes exactly one note, at
\* Burgs/Burg-<n>-<safe_filename(s)>.md, whose metadata has burg_id = n and
\* whose body links to Cells/Cell-<c>.
C14_BurgNote ==
    (PackIsDict /\ PastKind("burgs")) =>
        \A j \in 2..Len(ElsOf("burgs")) :
            LET b == ElsOf("burgs")[j]
            IN (b.shape = "dict" /\ b.hasI /\ b.hasName) =>
                /\ NotesOf(b) = {NotePath("burgs", b)}
                /\ files[NotePath("burgs", b)].fm.id = b.i
                /\ files[NotePath("burgs", b)].body.cell = b.cell

(***************************************************************************)
(* Calls of safe_filename alone (specification SpecSafe): a caller passes  *)
(* a text, then passes the result again.                                   *)
(***************************************************************************)
\* a letter of each case, a digit, the two kinds of whitespace, the three
\* allowed signs, a disallowed sign and a character outside ASCII
SafeChars == {"a", "Z", "7", " ", "\t", "_", "-", ".", "/", "U+00E9"}

\* the texts of at most n characters
RECURSIVE Texts(_)
Texts(n) ==
    IF n = 0 THEN {<<>>}
    ELSE LET S == Texts(n - 1)
         IN S \cup {Append(t, c) : t \in {u \in S : Len(u) = n - 1}, c \in SafeChars}

InitSafe ==
    /\ doc = DocOf(FALSE, FALSE, FALSE, "null", PlainPack)
    /\ pc = "safe"
    /\ idx = 0
    /\ exitCode = -1
    /\ raisedIn = ""
    /\ run = 1
    /\ files1 = EmptyFiles
    /\ dirs1 = {}
    /\ burg = [id |-> IntVal(8), name |-> T_Exact]
    /\ MFCG_DIR = FALSE /\ srcExists = FALSE /\ listing = <<>>
    /\ files = EmptyFiles
    /\ dirs = {}
    /\ MFCG_MATCH_MODE = "substring"
    /\ MFCG_DEDUPE = FALSE
    /\ ret = <<>>
    /\ calls = 0
    /\ pre = EmptyVault
    /\ sf_name \in Texts(MaxLen)
    /\ sf_result = <<>>
    /\ sf_again = <<>>
    /\ sf_step = 0

\* result = safe_filename(name)
CallSafeFilename ==
    /\ pc = "safe"
    /\ sf_step = 0
    /\ sf_result' = safe_filename(sf_name)
    /\ sf_step' = 1
    /\ UNCHANGED <<InputVars, PipelineVars, DirectVars, files, dirs, sf_name, sf_again>>

\* again = safe_filename(result)
CallSafeFilenameAgain ==
    /\ pc = "safe"
    /\ sf_step = 1
    /\ sf_again' = safe_filename(sf_result)
    /\ sf_step' = 2
    /\ UNCHANGED <<InputVars, PipelineVars, DirectVars, files, dirs, sf_name, sf_result>>

NextSafe ==
    \/ CallSafeFilename
    \/ CallSafeFilenameAgain

SpecSafe == InitSafe /\ [][NextSafe]_vars

\* letters, digits, '.', '-' and '_'
SafeAlphabet ==
    {UpperChars[i] : i \in DOMAIN UpperChars}
        \cup {LowerChars[i] : i \in DOMAIN LowerChars}
        \cup {DigitChars[i] : i \in DOMAIN DigitChars}
        \cup {".", "-", "_"}

\* C15: safe_filename is total and idempotent: for every text it returns
\* the fallback or a non-empty text of letters, digits, '.', '-' and '_',
\* and safe_filename(safe_filename(x)) = safe_filename(x).
C15_SafeFilenameIdempotent ==
    /\ sf_step >= 1 =>
          \/ sf_result = T_unnamed
          \/ /\ sf_result # <<>>
             /\ \A i \in DOMAIN sf_result : sf_result[i] \in SafeAlphabet
    /\ sf_step = 2 => sf_again = sf_result

\* safe_filename was called twice on a text with whitespace or a character
\* outside the allowed set, whose result keeps an underscore put for it
C15_Witness ==
    /\ sf_step = 2
    /\ \E i \in DOMAIN sf_name : sf_name[i] \notin SafeAlphabet
    /\ sf_result # T_unnamed
    /\ InSeq("_", sf_result)

\* the default the specification gives a field of each type, as repr()
\* prints it: 0 or 0.0, the empty string, the empty list, False
TypeDefault(type) ==
    CASE type = "num" -> {"0", "0.0"}
      [] type = "str" -> {"''"}
      [] type = "list" -> {"[]"}
      [] type = "bool" -> {"False"}

\* C16: for every kind and every field of its metadata, when the record
\* lacks the field the metadata holds the default of the field's type.
C16_TypeDefaults ==
    PackIsDict =>
      /\ \A p \in DOMAIN files :
            (p[1] = T_Cells /\ files[p].kind = "note") =>
                \A i \in DOMAIN files[p].fm.rest :
                    files[p].fm.rest[i].val \in TypeDefault(files[p].fm.rest[i].type)
      /\ \A k \in ListKinds :
            \A j \in DOMAIN ElsOf(k) :
                LET b == ElsOf(k)[j]
                IN (/\ b.shape = "dict" /\ ~b.hasI /\ ~b.hasName /\ ~b.hasRest
                    /\ HasNote(k, b))
                   => LET fm == files[NotePath(k, b)].fm
                      IN /\ fm.id = IntVal(0)
                         /\ fm.name = <<>>
                         /\ \A i \in DOMAIN fm.rest :
                               fm.rest[i].val \in TypeDefault(fm.rest[i].type)

\* C19: whenever get_emblem_for returned a non-empty path
\* emblems/<kind>-<id>.<ext>, a file is at that path in the vault: the
\* emblem a note names exists, also when the emblem's source path is the
\* destination path itself.
C19_EmblemFileExists ==
    \A p \in DOMAIN files :
        (files[p].kind = "note" /\ files[p].fm.emblem_url # <<>>) =>
            IsFile(FS, PathOf(<<files[p].fm.emblem_url>>))

====
